---- MODULE Spec2Model ----
(***************************************************************************)
(* Model of flake-modules/dev/list-plugins.py: the plugin-file scanner of  *)
(* nixvim.  Paths and file contents are strings; the substring tests, the  *)
(* regular expressions, the sort and the filters are computed on them.     *)
(***************************************************************************)
EXTENDS Integers, Sequences, FiniteSets, TLC

VARIABLES
    args,            \* the parsed command line (kind, state, deprecation_warnings, markdown)
    paths,           \* what glob.glob returned, in the order it returned it
    filtered_paths,  \* main's list after filter and sort
    pc,              \* where main is: "start", "loop", "done", "crashed"
    idx,             \* position of the for loop in filtered_paths
    opened,          \* every open() of the run so far: the path and what the file held
    plugins,         \* the Plugin objects parse_file returned so far
    printed,         \* the lines written to standard output so far
    exc,             \* the uncaught exception that ended the run, or None
    call,            \* parse_file called on its own: its argument and the file behind it
    ret              \* ... and what that call did

vars == <<args, paths, filtered_paths, pc, idx, opened, plugins, printed, exc, call, ret>>

\* Python's None (never a legal value of --kind or --state, nor an exception name).
None == "None"

-----------------------------------------------------------------------------
(* Strings *)

\* The printable ASCII characters in code point order, from the space (32) on.
\* A TLA+ string cannot hold the backquote (96): a tab, which no path,
\* name or content here contains, keeps its place.
Ascii == " !\"#$%&'()*+,-./0123456789:;<=>?@ABCDEFGHIJKLMNOPQRSTUVWXYZ[\\]^_\tabcdefghijklmnopqrstuvwxyz{|}~"

CharAt(s, i) == SubSeq(s, i, i)

\* The code point of every character of Ascii, from the i-th on.
RECURSIVE OrdFrom(_)
OrdFrom(i) ==
    IF i = Len(Ascii) THEN CharAt(Ascii, i) :> (31 + i)
    ELSE (CharAt(Ascii, i) :> (31 + i)) @@ OrdFrom(i + 1)

OrdTable == ("\n" :> 10) @@ OrdFrom(1)

\* ord(c) of a one-character string.
Ord(c) == OrdTable[c]

\* The first position at which a and b differ, from i on; 0 when one of them
\* ends before.
RECURSIVE FirstDifference(_, _, _)
FirstDifference(a, b, i) ==
    IF i > Len(a) \/ i > Len(b) THEN 0
    ELSE IF CharAt(a, i) # CharAt(b, i) THEN i
    ELSE FirstDifference(a, b, i + 1)

\* Python's a < b on str: the first differing code point decides, a proper
\* prefix is smaller.
StrLT(a, b) ==
    LET d == FirstDifference(a, b, 1)
    IN  IF d = 0 THEN Len(a) < Len(b)
        ELSE Ord(CharAt(a, d)) < Ord(CharAt(b, d))

\* Python's `p in s` on str.
StrIn(p, s) ==
    \E i \in 1..(Len(s) - Len(p) + 1) : SubSeq(s, i, i + Len(p) - 1) = p

\* chr(code point) of a printable ASCII character.
Chr(o) == CharAt(Ascii, o - 31)

\* str.lower() on ASCII text: A..Z (65..90) move up by 32.
RECURSIVE lower(_)
lower(s) ==
    IF s = "" THEN ""
    ELSE LET c == CharAt(s, 1)
             lc == IF Ord(c) >= 65 /\ Ord(c) <= 90 THEN Chr(Ord(c) + 32) ELSE c
         IN  lc \o lower(SubSeq(s, 2, Len(s)))

-----------------------------------------------------------------------------
(* Constants of the script *)

QUESTION_MARK == "U+2754"

EXCLUDES == <<
    "TEMPLATE.nix",
    "colorschemes/base16/theme-list.nix",
    "deprecations.nix",
    "helpers.nix",
    "plugins/by-name/dap/dapHelpers.nix",
    "plugins/by-name/efmls-configs/packages.nix",
    "plugins/by-name/gitsigns/options.nix",
    "plugins/by-name/hydra/hydras-option.nix",
    "plugins/by-name/hydra/settings-options.nix",
    "plugins/by-name/neogit/options.nix",
    "plugins/by-name/neotest/adapters-list.nix",
    "plugins/by-name/neotest/adapters.nix",
    "plugins/by-name/neotest/options.nix",
    "plugins/by-name/none-ls/_mk-source-plugin.nix",
    "plugins/by-name/none-ls/packages.nix",
    "plugins/by-name/none-ls/prettier.nix",
    "plugins/by-name/none-ls/prettierd.nix",
    "plugins/by-name/none-ls/settings.nix",
    "plugins/by-name/none-ls/sources.nix",
    "plugins/by-name/rustaceanvim/renamed-options.nix",
    "plugins/by-name/rustaceanvim/settings-options.nix",
    "plugins/by-name/startify/options.nix",
    "plugins/by-name/telescope/extensions/_mk-extension.nix",
    "plugins/by-name/telescope/extensions/default.nix",
    "plugins/cmp/auto-enable.nix",
    "plugins/cmp/options/",
    "plugins/cmp/sources/cmp-fish.nix",
    "plugins/cmp/sources/default.nix",
    "plugins/default.nix",
    "plugins/deprecation.nix",
    "plugins/lsp/language-servers/",
    "plugins/lsp/lsp-packages.nix" >>

\* class Kind(Enum): a member is its name and its value.
Kind_NEOVIM == [name |-> "NEOVIM", value |-> 1]
Kind_VIM == [name |-> "VIM", value |-> 2]
Kind_MISC == [name |-> "MISC", value |-> 3]

Kind == {Kind_NEOVIM, Kind_VIM, Kind_MISC}

\* class State(Enum): the values are the icons (named by their code points).
State_UNKNOWN == [name |-> "UNKNOWN", value |-> QUESTION_MARK]
State_NEW == [name |-> "NEW", value |-> "U+2705"]
State_OLD == [name |-> "OLD", value |-> "U+274C"]

State == {State_UNKNOWN, State_NEW, State_OLD}

\* The literal part of KNOWN_PATHS.
KNOWN_PATHS_literal ==
    [ p \in { "plugins/by-name/chadtree/default.nix",
              "plugins/by-name/coq-thirdparty/default.nix",
              "plugins/by-name/dap/default.nix",
              "plugins/by-name/gitmessenger/default.nix",
              "plugins/by-name/intellitab/default.nix",
              "plugins/by-name/leap/default.nix",
              "plugins/by-name/lint/default.nix",
              "plugins/by-name/lspkind/default.nix",
              "plugins/by-name/nix-develop/default.nix",
              "plugins/by-name/openscad/default.nix",
              "plugins/by-name/plantuml-syntax/default.nix",
              "plugins/by-name/rainbow-delimiters/default.nix",
              "plugins/by-name/treesitter-refactor/default.nix",
              "plugins/by-name/treesitter-textobjects/default.nix",
              "plugins/by-name/vim-bbye/default.nix",
              "plugins/by-name/vim-matchup/default.nix",
              "plugins/colorschemes/base16/default.nix",
              "plugins/lsp/default.nix" } |->
      CASE p = "plugins/by-name/chadtree/default.nix" -> <<State_OLD, Kind_NEOVIM, FALSE>>
        [] p = "plugins/by-name/coq-thirdparty/default.nix" -> <<State_OLD, Kind_NEOVIM, FALSE>>
        [] p = "plugins/by-name/dap/default.nix" -> <<State_OLD, Kind_NEOVIM, FALSE>>
        [] p = "plugins/by-name/gitmessenger/default.nix" -> <<State_OLD, Kind_VIM, FALSE>>
        [] p = "plugins/by-name/intellitab/default.nix" -> <<State_OLD, Kind_VIM, FALSE>>
        [] p = "plugins/by-name/leap/default.nix" -> <<State_OLD, Kind_NEOVIM, FALSE>>
        [] p = "plugins/by-name/lint/default.nix" -> <<State_OLD, Kind_NEOVIM, FALSE>>
        [] p = "plugins/by-name/lspkind/default.nix" -> <<State_OLD, Kind_NEOVIM, FALSE>>
        [] p = "plugins/by-name/nix-develop/default.nix" -> <<State_OLD, Kind_NEOVIM, FALSE>>
        [] p = "plugins/by-name/openscad/default.nix" -> <<State_OLD, Kind_VIM, FALSE>>
        [] p = "plugins/by-name/plantuml-syntax/default.nix" -> <<State_OLD, Kind_VIM, FALSE>>
        [] p = "plugins/by-name/rainbow-delimiters/default.nix" -> <<State_OLD, Kind_NEOVIM, FALSE>>
        [] p = "plugins/by-name/treesitter-refactor/default.nix" -> <<State_OLD, Kind_MISC, TRUE>>
        [] p = "plugins/by-name/treesitter-textobjects/default.nix" -> <<State_OLD, Kind_NEOVIM, TRUE>>
        [] p = "plugins/by-name/vim-bbye/default.nix" -> <<State_OLD, Kind_VIM, FALSE>>
        [] p = "plugins/by-name/vim-matchup/default.nix" -> <<State_OLD, Kind_VIM, FALSE>>
        [] p = "plugins/colorschemes/base16/default.nix" -> <<State_NEW, Kind_VIM, TRUE>>
        [] p = "plugins/lsp/default.nix" -> <<State_NEW, Kind_MISC, FALSE>> ]

\* The dict the module-level loop iterates: telescope extension name -> has_depr_warnings.
telescope_extensions ==
    [ n \in { "file-browser", "frecency", "fzf-native", "fzy-native", "live-greps-args",
              "manix", "media-files", "ui-select", "undo" } |->
      n \in { "file-browser", "frecency", "fzf-native", "fzy-native", "media-files", "undo" } ]

\* The f-string that keys a telescope extension.
telescope_path(telescope_extension_name) ==
    "plugins/by-name/telescope/extensions/" \o telescope_extension_name \o ".nix"

\* KNOWN_PATHS once the module-level loop has run.
KNOWN_PATHS ==
    LET added == { telescope_path(n) : n \in DOMAIN telescope_extensions }
        name_of(p) == CHOOSE n \in DOMAIN telescope_extensions : telescope_path(n) = p
    IN  [ p \in (DOMAIN KNOWN_PATHS_literal) \cup added |->
            IF p \in added
            THEN <<State_NEW, Kind_MISC, telescope_extensions[name_of(p)]>>
            ELSE KNOWN_PATHS_literal[p] ]

-----------------------------------------------------------------------------
(* Regular expressions, as far as the script uses them *)

Lit(s) == [t |-> "lit", s |-> s]
DotStar == [t |-> ".*", s |-> ""]
DotPlus == [t |-> ".+", s |-> ""]

\* re.compile(pattern, flags): the pattern as its tokens, and whether re.DOTALL is set.
re_compile(tokens, dotall) == [tokens |-> tokens, dotall |-> dotall]

\* "." matches every character of s[pos .. pos+n-1]: any character under DOTALL,
\* any but the newline without it.
DotRun(regex, s, pos, n) ==
    regex.dotall \/ \A q \in pos..(pos + n - 1) : CharAt(s, q) # "\n"

\* The tokens from the k-th on match s from position pos on (backtracking over
\* every length a repetition can take).
RECURSIVE MatchFrom(_, _, _, _)
MatchFrom(regex, s, k, pos) ==
    IF k > Len(regex.tokens) THEN TRUE
    ELSE LET tok == regex.tokens[k]
             rest == Len(s) - pos + 1
         IN  CASE tok.t = "lit" ->
                    /\ Len(tok.s) <= rest
                    /\ SubSeq(s, pos, pos + Len(tok.s) - 1) = tok.s
                    /\ MatchFrom(regex, s, k + 1, pos + Len(tok.s))
               [] tok.t = ".*" ->
                    \E n \in 0..rest :
                        DotRun(regex, s, pos, n) /\ MatchFrom(regex, s, k + 1, pos + n)
               [] tok.t = ".+" ->
                    \E n \in 1..rest :
                        DotRun(regex, s, pos, n) /\ MatchFrom(regex, s, k + 1, pos + n)

\* re.match(regex, string): a match anchored at the start of the string, not
\* necessarily reaching its end.
re_match(regex, string) == MatchFrom(regex, string, 1, 1)

DEPRECATION_PATTERNS ==
    << "deprecateExtra", "mkRemovedOptionModule", "mkRenamedOptionModule",
       "optionsRenamedToSettings" >>

DEPRECATION_REGEX ==
    [ i \in DOMAIN DEPRECATION_PATTERNS |->
        re_compile(<<DotStar, Lit(DEPRECATION_PATTERNS[i])>>, TRUE) ]

\* The first regex that matches returns True; False after the last.
RECURSIVE has_deprecation_warnings_from(_, _)
has_deprecation_warnings_from(string, i) ==
    IF i > Len(DEPRECATION_REGEX) THEN FALSE
    ELSE IF re_match(DEPRECATION_REGEX[i], string) THEN TRUE
    ELSE has_deprecation_warnings_from(string, i + 1)

\* As has_deprecation_warnings, had re.DOTALL been left out: "." stops at a
\* line break, only the first line is searched.
has_deprecation_warnings_first_line(string) ==
    \E i \in DOMAIN DEPRECATION_PATTERNS :
        re_match(re_compile(<<DotStar, Lit(DEPRECATION_PATTERNS[i])>>, FALSE), string)

has_deprecation_warnings(string) == has_deprecation_warnings_from(string, 1)

-----------------------------------------------------------------------------
(* parse_file *)

\* A file as open() finds it.
Unreadable == [readable |-> FALSE, content |-> ""]
File(content) == [readable |-> TRUE, content |-> content]

Plugin(path, state, kind, dep_warnings) ==
    [path |-> path, state |-> state, kind |-> kind, dep_warnings |-> dep_warnings]

Return(value) == [tag |-> "return", value |-> value]
Raise(exception) == [tag |-> "raise", value |-> exception]

\* The local `kind` before any branch has assigned it.
Unbound == [name |-> "<unbound>", value |-> 0]

NEOVIM_PLUGIN_REGEX == re_compile(<<DotStar, Lit("mkNeovimPlugin")>>, TRUE)
REQUIRE_SETUP_REGEX == re_compile(<<DotStar, Lit("require"), DotPlus, Lit("setup")>>, TRUE)
VIM_PLUGIN_REGEX == re_compile(<<DotStar, Lit("mkVimPlugin")>>, TRUE)

\* As heuristics, with the last two branches in the other order.
heuristics_vim_first(file_content) ==
    IF re_match(NEOVIM_PLUGIN_REGEX, file_content)
    THEN [state |-> State_NEW, kind |-> Kind_NEOVIM]
    ELSE IF re_match(VIM_PLUGIN_REGEX, file_content)
    THEN [state |-> State_NEW, kind |-> Kind_VIM]
    ELSE IF re_match(REQUIRE_SETUP_REGEX, file_content)
    THEN [state |-> State_OLD, kind |-> Kind_NEOVIM]
    ELSE [state |-> State_UNKNOWN, kind |-> Unbound]

\* The if / elif / elif of parse_file: the locals (state, kind) after it.
heuristics(file_content) ==
    IF re_match(NEOVIM_PLUGIN_REGEX, file_content)
    THEN [state |-> State_NEW, kind |-> Kind_NEOVIM]
    ELSE IF re_match(REQUIRE_SETUP_REGEX, file_content)
    THEN [state |-> State_OLD, kind |-> Kind_NEOVIM]
    ELSE IF re_match(VIM_PLUGIN_REGEX, file_content)
    THEN [state |-> State_NEW, kind |-> Kind_VIM]
    ELSE [state |-> State_UNKNOWN, kind |-> Unbound]

\* As parse_file, with the override table consulted only when no heuristic
\* rule matched.
parse_file_override_last(path, file) ==
    IF ~file.readable THEN Raise("OSError")
    ELSE LET locals == heuristics(file.content)
         IN  IF locals.kind # Unbound
             THEN Return(Plugin(path, locals.state, locals.kind,
                                has_deprecation_warnings(file.content)))
             ELSE IF path \in DOMAIN KNOWN_PATHS
             THEN Return(Plugin(path, KNOWN_PATHS[path][1], KNOWN_PATHS[path][2],
                                KNOWN_PATHS[path][3]))
             ELSE Raise("UnboundLocalError")

\* As parse_file, with the override table consulted before the file is opened.
parse_file_override_before_open(path, file) ==
    IF path \in DOMAIN KNOWN_PATHS
    THEN Return(Plugin(path, KNOWN_PATHS[path][1], KNOWN_PATHS[path][2],
                       KNOWN_PATHS[path][3]))
    ELSE IF ~file.readable THEN Raise("OSError")
    ELSE LET locals == heuristics(file.content)
         IN  IF locals.kind = Unbound
             THEN Raise("UnboundLocalError")
             ELSE Return(Plugin(path, locals.state, locals.kind,
                                has_deprecation_warnings(file.content)))

\* parse_file(path), given the file open(path) finds.  The file is opened and
\* read first; reading the unassigned local `kind` raises UnboundLocalError,
\* and it is read before has_deprecation_warnings is called.
parse_file(path, file) ==
    IF ~file.readable THEN Raise("OSError")
    ELSE LET file_content == file.content
         IN  IF path \in DOMAIN KNOWN_PATHS
             THEN LET props == KNOWN_PATHS[path]
                  IN  Return(Plugin(path, props[1], props[2], props[3]))
             ELSE LET locals == heuristics(file_content)
                  IN  IF locals.kind = Unbound
                      THEN Raise("UnboundLocalError")
                      ELSE Return(Plugin(path, locals.state, locals.kind,
                                         has_deprecation_warnings(file_content)))

-----------------------------------------------------------------------------
(* parse_file on its own *)

NotCalled == [tag |-> "none", value |-> None]

\* How many pieces a file content of the parse_file check is made of.
MaxPieces == 3

\* The markers of the three rules; "setup" also with a line break before it.
HeuristicPieces == {"mkNeovimPlugin", "require", "setup", "\nsetup", "mkVimPlugin"}

RECURSIVE Concatenations(_)
Concatenations(n) ==
    IF n = 0 THEN {""}
    ELSE LET shorter == Concatenations(n - 1)
         IN  shorter \cup {s \o p : s \in shorter, p \in HeuristicPieces}

DeprecationTails ==
    {""} \cup {"\n  " \o DEPRECATION_PATTERNS[i] \o " x" : i \in DOMAIN DEPRECATION_PATTERNS}

ParseContents == {h \o d : h \in Concatenations(MaxPieces), d \in DeprecationTails}

ParsePaths ==
    (DOMAIN KNOWN_PATHS) \cup
    {"plugins/by-name/dap-ui/default.nix", "plugins/by-name/zk/default.nix"}

ParseFiles == {Unreadable} \cup {File(c) : c \in ParseContents}

MainIdle ==
    /\ args = [kind |-> None, state |-> None, deprecation_warnings |-> FALSE,
               markdown |-> FALSE]
    /\ paths = <<>>
    /\ filtered_paths = <<>>
    /\ pc = "start"
    /\ idx = 0
    /\ opened = <<>>
    /\ plugins = <<>>
    /\ printed = <<>>
    /\ exc = None

InitParse ==
    /\ MainIdle
    /\ call \in [path : ParsePaths, file : ParseFiles]
    /\ ret = NotCalled

CallParseFile ==
    /\ ret.tag = "none"
    /\ ret' = parse_file(call.path, call.file)
    /\ UNCHANGED <<args, paths, filtered_paths, pc, idx, opened, plugins, printed, exc, call>>

NextParse == CallParseFile

SpecParse == InitParse /\ [][NextParse]_vars

-----------------------------------------------------------------------------
(* main *)

\* The loop of _is_excluded from the i-th pattern on: False at the first
\* pattern found in the path, True when the list is exhausted.
RECURSIVE is_excluded_from(_, _)
is_excluded_from(path, i) ==
    IF i > Len(EXCLUDES) THEN TRUE
    ELSE IF StrIn(EXCLUDES[i], path) THEN FALSE
    ELSE is_excluded_from(path, i + 1)

\* As _is_excluded, returning what its name says: True for a path a pattern
\* is found in.
is_excluded_true_on_match(path) == ~is_excluded_from(path, 1)

_is_excluded(path) == is_excluded_from(path, 1)

\* As the filter, keeping the elements the predicate is false of.
filter_drops_true(ps) == SelectSeq(ps, LAMBDA q : ~_is_excluded(q))

\* list(filter(_is_excluded, paths)): the elements the predicate is true of.
filter_is_excluded(ps) == SelectSeq(ps, _is_excluded)

\* As list_sort, had the list been left as the glob returned it.
list_unsorted(l) == l

\* list.sort() on a list of str: ascending, stable.
RECURSIVE list_sort(_)
list_sort(l) ==
    IF l = <<>> THEN <<>>
    ELSE LET x == Head(l)
             rest == list_sort(Tail(l))
         IN  SelectSeq(rest, LAMBDA y : StrLT(y, x)) \o <<x>> \o
             SelectSeq(rest, LAMBDA y : ~StrLT(y, x))

TABLE_HEADER ==
    << "| Typ | Sty | DW | path",
       "|-----|-----|----|--------------------------------------------------------" >>

\* Plugin.__str__: the escape character is written \033, the icons by code point.
kind_icon(kind) ==
    CASE kind = Kind_NEOVIM -> "\\033[94m" \o "U+E6AE"
      [] kind = Kind_VIM -> "\\033[92m" \o "U+E62B"
      [] kind = Kind_MISC -> "\\033[92m" \o "U+1F7E2"

Plugin_str(self) ==
    LET state_icon == self.state.value
        deprecation_icon == IF self.dep_warnings THEN "U+26A0 " ELSE "  "
    IN  "| " \o kind_icon(self.kind) \o "\\033[0m  | " \o state_icon \o "  | "
             \o deprecation_icon \o " | " \o self.path

\* Plugin.print_markdown: the line it prints.
print_markdown(self) == "- [ ] " \o self.path \o " (" \o lower(self.kind.name) \o ")"

\* As selected, without the deprecation filter.
selected_without_deprecation(a, plugin) ==
    /\ (a.kind = None \/ lower(plugin.kind.name) = a.kind)
    /\ (a.state = None \/ lower(plugin.state.name) = a.state)

\* The condition of main's inner if.
selected(a, plugin) ==
    /\ (a.kind = None \/ lower(plugin.kind.name) = a.kind)
    /\ (a.state = None \/ lower(plugin.state.name) = a.state)
    /\ (~a.deprecation_warnings \/ plugin.dep_warnings)

\* What one iteration prints for a plugin.
output(a, plugin) ==
    IF selected(a, plugin)
    THEN << IF a.markdown THEN print_markdown(plugin) ELSE Plugin_str(plugin) >>
    ELSE << >>

\* The command lines argparse accepts.
Args ==
    [ kind : {None} \cup {lower(k.name) : k \in Kind},
      state : {None} \cup {lower(st.name) : st \in State},
      deprecation_warnings : BOOLEAN,
      markdown : BOOLEAN ]

\* How many files the glob finds at most.
MaxGlob == 2

\* Files that may exist under plugins/: two with an override entry, two
\* without, one named by an exclusion pattern.
GlobUniverse ==
    { "plugins/by-name/dap/default.nix",
      "plugins/by-name/telescope/extensions/undo.nix",
      "plugins/by-name/dap-ui/default.nix",
      "plugins/by-name/zk/default.nix",
      "plugins/by-name/zk/my-helpers.nix" }

RECURSIVE Listings(_)
Listings(n) ==
    IF n = 0 THEN {<<>>}
    ELSE LET shorter == Listings(n - 1)
         IN  shorter \cup
             {Append(l, p) : l \in shorter, p \in GlobUniverse} 

\* glob.glob returns each file once, in no particular order.
GlobResults ==
    {l \in Listings(MaxGlob) : \A i, j \in DOMAIN l : i # j => l[i] # l[j]}

\* What a file may hold: the legacy idiom with a deprecation shim on a later
\* line, the Vim builder, and no marker at all.
MainContents ==
    { "require('zk')\n.setup { }\nmkRemovedOptionModule",
      "mkVimPlugin",
      "{ }" }

MainFiles == {Unreadable} \cup {File(c) : c \in MainContents}

Init ==
    /\ args \in Args
    /\ paths \in GlobResults
    /\ filtered_paths = <<>>
    /\ pc = "start"
    /\ idx = 0
    /\ opened = <<>>
    /\ plugins = <<>>
    /\ printed = <<>>
    /\ exc = None
    /\ call = [path |-> "", file |-> Unreadable]
    /\ ret = NotCalled

\* main up to its loop: glob (the listing is paths), filter, sort, header.
MainStart ==
    /\ pc = "start"
    /\ filtered_paths' = list_sort(filter_is_excluded(paths))
    /\ printed' = IF ~args.markdown THEN TABLE_HEADER ELSE <<>>
    /\ idx' = 1
    /\ pc' = "loop"
    /\ UNCHANGED <<args, paths, opened, plugins, exc, call, ret>>

\* One iteration of the loop: parse_file opens the file of the next path;
\* an exception it raises is caught nowhere and ends the run.
MainLoopBody ==
    /\ pc = "loop"
    /\ idx <= Len(filtered_paths)
    /\ \E file \in MainFiles :
         LET plugin_path == filtered_paths[idx]
             result == parse_file(plugin_path, file)
         IN  /\ opened' = Append(opened, [path |-> plugin_path, file |-> file])
             /\ IF result.tag = "raise"
                THEN /\ pc' = "crashed"
                     /\ exc' = result.value
                     /\ UNCHANGED <<idx, plugins, printed>>
                ELSE /\ plugins' = Append(plugins, result.value)
                     /\ printed' = printed \o output(args, result.value)
                     /\ idx' = idx + 1
                     /\ UNCHANGED <<pc, exc>>
    /\ UNCHANGED <<args, paths, filtered_paths, call, ret>>

\* The loop is exhausted: main returns and the process exits normally.
MainReturn ==
    /\ pc = "loop"
    /\ idx > Len(filtered_paths)
    /\ pc' = "done"
    /\ UNCHANGED <<args, paths, filtered_paths, idx, opened, plugins, printed, exc, call, ret>>

Next == MainStart \/ MainLoopBody \/ MainReturn

Spec == Init /\ [][Next]_vars

-----------------------------------------------------------------------------
(* What the claims speak of, stated on the text itself *)

Range(f) == {f[i] : i \in DOMAIN f}

\* Some exclusion pattern is a substring of the path.
MatchesExclusion(p) == \E k \in DOMAIN EXCLUDES : StrIn(EXCLUDES[k], p)

\* "require", then at least one character, then "setup".
HasRequireSetup(c) ==
    \E i \in 1..(Len(c) - 6) : \E j \in 1..(Len(c) - 4) :
        /\ SubSeq(c, i, i + 6) = "require"
        /\ SubSeq(c, j, j + 4) = "setup"
        /\ j >= i + 8

\* The (state, kind) the ordered rules give a content, <<>> when none applies.
MarkerStyle(c) ==
    IF StrIn("mkNeovimPlugin", c) THEN <<State_NEW, Kind_NEOVIM>>
    ELSE IF HasRequireSetup(c) THEN <<State_OLD, Kind_NEOVIM>>
    ELSE IF StrIn("mkVimPlugin", c) THEN <<State_NEW, Kind_VIM>>
    ELSE <<>>

\* The content holds one of the four deprecation markers.
HasDeprecationMarker(c) ==
    \/ StrIn("deprecateExtra", c)
    \/ StrIn("mkRemovedOptionModule", c)
    \/ StrIn("mkRenamedOptionModule", c)
    \/ StrIn("optionsRenamedToSettings", c)

HasOverride(p) == p \in DOMAIN KNOWN_PATHS

\* The lowercase names the command line uses.
LowercaseName(member) ==
    CASE member.name = "NEOVIM" -> "neovim"
      [] member.name = "VIM" -> "vim"
      [] member.name = "MISC" -> "misc"
      [] member.name = "UNKNOWN" -> "unknown"
      [] member.name = "NEW" -> "new"
      [] member.name = "OLD" -> "old"

\* The record satisfies every active filter.
PassesFilters(pl) ==
    /\ (args.kind # None => LowercaseName(pl.kind) = args.kind)
    /\ (args.state # None => LowercaseName(pl.state) = args.state)
    /\ (args.deprecation_warnings => pl.dep_warnings)

NoFilters ==
    args.kind = None /\ args.state = None /\ ~args.deprecation_warnings

\* The output without the two header lines of the table.
RecordLines ==
    IF args.markdown \/ pc = "start" THEN printed ELSE SubSeq(printed, 3, Len(printed))

LineOf(pl) == IF args.markdown THEN print_markdown(pl) ELSE Plugin_str(pl)

\* The records among the first n classified that pass the filters, in order.
RECURSIVE Surviving(_)
Surviving(n) ==
    IF n = 0 THEN <<>>
    ELSE Surviving(n - 1) \o
         (IF PassesFilters(plugins[n]) THEN <<plugins[n]>> ELSE <<>>)

\* The line is the line of path p: a table line ends with it, a checklist
\* line starts with it after the box.
NamesPath(line, p) ==
    IF args.markdown
    THEN /\ Len(line) >= Len(p) + 8
         /\ SubSeq(line, 1, Len(p) + 8) = "- [ ] " \o p \o " ("
    ELSE /\ Len(line) >= Len(p) + 3
         /\ SubSeq(line, Len(line) - Len(p) - 2, Len(line)) = " | " \o p

\* The record the override table or, without an entry, the markers give an
\* opened file.
ExpectedPlugin(o) ==
    IF HasOverride(o.path)
    THEN [path |-> o.path, state |-> KNOWN_PATHS[o.path][1],
          kind |-> KNOWN_PATHS[o.path][2], dep_warnings |-> KNOWN_PATHS[o.path][3]]
    ELSE [path |-> o.path, state |-> MarkerStyle(o.file.content)[1],
          kind |-> MarkerStyle(o.file.content)[2],
          dep_warnings |-> HasDeprecationMarker(o.file.content)]

Classifiable(o) ==
    o.file.readable /\ (HasOverride(o.path) \/ MarkerStyle(o.file.content) # <<>>)

Returned == ret.tag = "return"
Called == ret.tag # "none"

-----------------------------------------------------------------------------
(* The claims *)

\* C1: for every key of the override table (the nine telescope extension
\* entries included) whose file is readable, parse_file returns the record of
\* the overridden triple, whatever the file holds.
C1_OverrideWins ==
    /\ \A n \in { "file-browser", "frecency", "fzf-native", "fzy-native",
                  "live-greps-args", "manix", "media-files", "ui-select", "undo" } :
          HasOverride("plugins/by-name/telescope/extensions/" \o n \o ".nix")
    /\ (Called /\ HasOverride(call.path) /\ call.file.readable) =>
          /\ Returned
          /\ ret.value.path = call.path
          /\ <<ret.value.state, ret.value.kind, ret.value.dep_warnings>>
                = KNOWN_PATHS[call.path]

\* A telescope entry flagged without deprecation warnings, on a file the
\* heuristics would call (NEW, NEOVIM) and that holds a deprecation marker.
C1_Witness ==
    /\ Returned
    /\ call.path = "plugins/by-name/telescope/extensions/manix.nix"
    /\ StrIn("mkNeovimPlugin", call.file.content)
    /\ StrIn("deprecateExtra", call.file.content)
    /\ ret.value.kind = Kind_MISC
    /\ ~ret.value.dep_warnings

\* C2: without an override entry the rules apply in order, first match wins:
\* mkNeovimPlugin gives (NEW, NEOVIM), else require...setup gives (OLD, NEOVIM),
\* else mkVimPlugin gives (NEW, VIM).
C2_FirstMatch ==
    (Called /\ call.file.readable /\ ~HasOverride(call.path)
        /\ MarkerStyle(call.file.content) # <<>>) =>
          /\ Returned
          /\ <<ret.value.state, ret.value.kind>> = MarkerStyle(call.file.content)

\* require, a line break, setup and mkVimPlugin together: (OLD, NEOVIM).
C2_Witness ==
    /\ Returned
    /\ ~HasOverride(call.path)
    /\ call.file.content = "require\nsetupmkVimPlugin"
    /\ ret.value.state = State_OLD
    /\ ret.value.kind = Kind_NEOVIM

\* C3: a readable path without override entry whose content holds none of
\* the three markers yields a record with state UNKNOWN, and no exception.
C3_UnresolvedIsARecord ==
    \A i \in DOMAIN opened :
        (opened[i].file.readable /\ ~HasOverride(opened[i].path)
            /\ MarkerStyle(opened[i].file.content) = <<>>) =>
              /\ exc = None
              /\ Len(plugins) >= i
              /\ plugins[i].path = opened[i].path
              /\ plugins[i].state = State_UNKNOWN

\* The files that may exist whose path holds an exclusion pattern.
PatternMatched == {p : p \in {q \in GlobUniverse : MatchesExclusion(q)}}

\* C4: once filtered, the list holds exactly the discovered paths no
\* exclusion pattern is a substring of; a path that holds one is never
\* opened and never printed, and a run that completes has opened every other.
C4_ExcludedIffPatternMatches ==
    pc # "start" =>
        /\ Range(filtered_paths) = Range(paths) \ PatternMatched
        /\ \A i \in DOMAIN opened : opened[i].path \notin PatternMatched
        /\ \A p \in Range(paths) \cap PatternMatched :
              \A i \in DOMAIN RecordLines : ~NamesPath(RecordLines[i], p)
        /\ pc = "done" =>
              {opened[i].path : i \in DOMAIN opened} = Range(paths) \ PatternMatched

\* A completed scan of one excluded and one included file, the latter printed.
C4_Witness ==
    /\ pc = "done"
    /\ Range(paths) \cap PatternMatched # {}
    /\ \E p \in Range(paths) : \E i \in DOMAIN RecordLines : NamesPath(RecordLines[i], p)

\* C5: the lines printed are those of the classified records that satisfy
\* every active filter, and of no other; without filters, of all of them.
C5_PrintedIffAllFilters ==
    pc # "start" =>
        LET surviving == Surviving(Len(plugins))
        IN  /\ Len(RecordLines) = Len(surviving)
            /\ \A i \in DOMAIN surviving : RecordLines[i] = LineOf(surviving[i])
            /\ NoFilters => Len(RecordLines) = Len(plugins)

\* Two filters active, one record passing both, one of the right kind failing
\* the other.
C5_Witness ==
    /\ args.kind # None
    /\ args.deprecation_warnings
    /\ Len(plugins) = 2
    /\ Len(RecordLines) = 1
    /\ \E i \in DOMAIN plugins :
          /\ LowercaseName(plugins[i].kind) = args.kind
          /\ ~plugins[i].dep_warnings

\* C6: the list is strictly ascending before any file is opened, the files
\* are opened in that order, each once, all of them when the run completes,
\* and the lines name the surviving paths in that order in both modes.
C6_AscendingOrder ==
    /\ pc = "start" => opened = <<>>
    /\ pc # "start" =>
        LET surviving == Surviving(Len(plugins))
        IN  /\ \A i, j \in DOMAIN filtered_paths :
                  i < j => StrLT(filtered_paths[i], filtered_paths[j])
            /\ Len(opened) <= Len(filtered_paths)
            /\ \A i \in DOMAIN opened : opened[i].path = filtered_paths[i]
            /\ pc = "done" => Len(opened) = Len(filtered_paths)
            /\ Len(RecordLines) = Len(surviving)
            /\ \A i \in DOMAIN surviving : NamesPath(RecordLines[i], surviving[i].path)
            /\ \A i, j \in DOMAIN surviving :
                  i < j => StrLT(surviving[i].path, surviving[j].path)

\* The glob lists dap/ before dap-ui/, the checklist prints dap-ui/ first.
C6_Witness ==
    /\ pc = "done"
    /\ args.markdown
    /\ paths = << "plugins/by-name/dap/default.nix",
                  "plugins/by-name/dap-ui/default.nix" >>
    /\ Len(printed) = 2
    /\ NamesPath(printed[1], "plugins/by-name/dap-ui/default.nix")
    /\ NamesPath(printed[2], "plugins/by-name/dap/default.nix")

\* C7: without an override entry, the record's dep_warnings is true exactly
\* when the content holds one of the four markers, whatever the heuristics
\* found, also when they found nothing.
C7_DeprecationIsMembership ==
    (Called /\ call.file.readable /\ ~HasOverride(call.path)) =>
        /\ Returned
        /\ ret.value.dep_warnings = HasDeprecationMarker(call.file.content)

\* C7, where a heuristic rule matched: the flag is the membership test.
C7_WhereARuleMatched ==
    (Returned /\ ~HasOverride(call.path)) =>
        ret.value.dep_warnings = HasDeprecationMarker(call.file.content)

\* C8: without filters, while every opened file is readable and has an
\* override entry or a marker, the run has not failed and has printed one line
\* per opened path: that of the override triple, or of the markers of its own
\* content; a completed run has printed one line per included path.
C8_OneLinePerIncludedPath ==
    (NoFilters /\ pc # "start" /\ \A i \in DOMAIN opened : Classifiable(opened[i])) =>
        /\ pc # "crashed"
        /\ Len(RecordLines) = Len(opened)
        /\ \A i \in DOMAIN opened :
              RecordLines[i] = LineOf(ExpectedPlugin(opened[i]))
        /\ pc = "done" =>
              Len(RecordLines) = Cardinality(Range(paths) \ PatternMatched)

\* The end-to-end scenario: an override path and a file with the legacy idiom.
C8_Witness ==
    /\ NoFilters
    /\ ~args.markdown
    /\ pc = "done"
    /\ Len(opened) = 2
    /\ HasOverride(opened[1].path)
    /\ opened[1].file.content = "mkVimPlugin"
    /\ ~HasOverride(opened[2].path)
    /\ HasRequireSetup(opened[2].file.content)
    /\ Len(printed) = 4

\* C9: an unreadable file ends the run there, with or without an override
\* entry: it is the last file opened, the run has failed and takes no further
\* step, the records before it are printed, none for it or a later path.
C9_ReadFailureIsFatal ==
    \A i \in DOMAIN opened : ~opened[i].file.readable =>
        LET before == Surviving(i - 1)
        IN  /\ i = Len(opened)
            /\ pc = "crashed"
            /\ exc = "OSError"
            /\ ~ENABLED Next
            /\ Len(plugins) = i - 1
            /\ Len(RecordLines) = Len(before)
            /\ \A k \in DOMAIN before : RecordLines[k] = LineOf(before[k])
            /\ \A j \in i..Len(filtered_paths) :
                  \A k \in DOMAIN RecordLines :
                      ~NamesPath(RecordLines[k], filtered_paths[j])

\* The second of two files has an override entry and cannot be read; the
\* first has been printed.
C9_Witness ==
    /\ pc = "crashed"
    /\ Len(opened) = 2
    /\ HasOverride(opened[2].path)
    /\ ~opened[2].file.readable
    /\ Len(RecordLines) = 1

\* C10, as stated: the filter keeps a path when a pattern is a substring of
\* it and drops it only when none is.
C10_KeepsOnMatch ==
    pc # "start" =>
        \A p \in Range(paths) : (p \in Range(filtered_paths)) <=> p \in PatternMatched

\* _is_excluded is False for a path a pattern is a substring of, True for any
\* other.
FalseOnMatch == \A p \in GlobUniverse : _is_excluded(p) = ~MatchesExclusion(p)

\* The files that may exist of which _is_excluded is True.
IsExcludedTrue == {p : p \in {q \in GlobUniverse : _is_excluded(q)}}

\* C10, amended: _is_excluded is False for a path a pattern is a substring of
\* and True for any other, and filter keeps the paths it is True of: a path
\* naming a known non-plugin file is dropped, the list is not inert.
C10_DropsOnMatch ==
    /\ FalseOnMatch
    /\ pc # "start" =>
        /\ \A p \in Range(paths) : (p \in Range(filtered_paths)) <=> p \in IsExcludedTrue
        /\ Range(filtered_paths) \cap PatternMatched = {}
        /\ Len(filtered_paths) = Cardinality(Range(paths) \cap IsExcludedTrue)

\* The helper file is listed, dropped, and the plugin beside it is kept.
C10_Witness ==
    /\ pc = "loop"
    /\ "plugins/by-name/zk/my-helpers.nix" \in Range(paths)
    /\ filtered_paths = << "plugins/by-name/zk/default.nix" >>

====
